---- MODULE Spec2Model ----
(***************************************************************************)
(* Model of mtgscrapper/mtg_format.py: FormatHandler walks the content     *)
(* tree of an article, stamps a format on every node and counts the        *)
(* formats it observes in known_formats.                                   *)
(*                                                                         *)
(* A string is modelled as the sequence of its words; str.lower() lowers   *)
(* every word, and a format name occurs in a string once per word that     *)
(* contains it.  The content tree is kept in depth-first pre-order: node k *)
(* is a child of the nearest earlier section whose depth is one less.      *)
(* The recursion of process_section is unfolded into one step per node;    *)
(* `frames` is the call stack (the format_ local of every section call     *)
(* that has not returned yet).                                             *)
(***************************************************************************)
EXTENDS Integers, Sequences, FiniteSets, TLC

VARIABLES
    search_in_text,   \* FormatHandler.search_in_text
    tags,             \* article.tags
    title,            \* article.title
    nodes,            \* the content tree of the article (pre-order)
    formats,          \* article.formats
    format,           \* the article's single format, written by set_format
    known_formats,    \* the dict local to process_article
    priority_format,  \* the local of process_article
    frames,           \* format_ of the process_section calls in progress
    pc,               \* position in process_article
    i,                \* index of the node the traversal reaches next
    run,              \* number of the current call of process_article
    entry,            \* the tree as it was when the current call started
    passed,           \* format_ argument each node was processed with
    set_format_calls, \* arguments of set_format in the current call
    first             \* outcome of the first call

vars == <<search_in_text, tags, title, nodes, formats, format, known_formats,
          priority_format, frames, pc, i, run, entry, passed,
          set_format_calls, first>>

----------------------------------------------------------------------------
(* Bounds of the checked instances *)

MaxNodes == 3
MaxWords == 2
MaxTags == 2
MaxRuns == 2

----------------------------------------------------------------------------
(* Values *)

None == "None"

MTGFORMATS == <<"limited", "standard", "historic", "alchemy", "explorer", "pioneer">>

Formats == {MTGFORMATS[n] : n \in 1..Len(MTGFORMATS)}

\* Words that the strings of the checked instances are made of.
TitleWords == {"Pioneer", "standard"}
TagWords == {"Standard", "standard", "Pioneer", "News"}
DecklistFormats == {"standard", "pioneer"}

\* str.lower() of one word
LowerWord(w) ==
    CASE w = "Pioneer" -> "pioneer"
      [] w = "Standard" -> "standard"
      [] w = "News" -> "news"
      [] OTHER -> w

\* str.lower()
Lower(words) == [n \in 1..Len(words) |-> LowerWord(words[n])]

\* A string value: None, or a string made of words.
NoneStr == [none |-> TRUE, words |-> <<>>]
Str(words) == [none |-> FALSE, words |-> words]

\* number of non-overlapping occurrences of the format name in one lower-cased word
WordCount(word, name) == IF word = name THEN 1 ELSE 0

RECURSIVE SumSeq(_)
SumSeq(s) == IF s = <<>> THEN 0 ELSE s[1] + SumSeq(Tail(s))

\* str.count(name)
Count(words, name) == SumSeq([n \in 1..Len(words) |-> WordCount(words[n], name)])

\* name in str
Contains(words, name) == Count(words, name) > 0

\* Argmax with the last index of the maximum instead of the first
ArgmaxLast(s) ==
    CHOOSE n \in 1..Len(s) :
        /\ \A m \in 1..Len(s) : s[m] <= s[n]
        /\ \A m \in (n + 1)..Len(s) : s[m] < s[n]

\* numpy argmax: the first index of the maximum
Argmax(s) ==
    CHOOSE n \in 1..Len(s) :
        /\ \A m \in 1..Len(s) : s[m] <= s[n]
        /\ \A m \in 1..(n - 1) : s[m] < s[n]

RECURSIVE SelectSeqOf(_, _)
\* the entries of s that lie in the set S, order kept
SelectSeqOf(s, S) ==
    IF s = <<>> THEN <<>>
    ELSE IF s[1] \in S THEN <<s[1]>> \o SelectSeqOf(Tail(s), S)
    ELSE SelectSeqOf(Tail(s), S)

----------------------------------------------------------------------------
(* The dict known_formats: a sequence of entries in insertion order *)

Keys(kf) == [n \in 1..Len(kf) |-> kf[n].k]
Values(kf) == [n \in 1..Len(kf) |-> kf[n].v]
KeySet(kf) == {kf[n].k : n \in 1..Len(kf)}

\* known_formats.get(f, 0)
Get(kf, f) == IF f \in KeySet(kf) THEN kf[CHOOSE n \in 1..Len(kf) : kf[n].k = f].v ELSE 0

\* known_formats.setdefault(f, 0)
SetDefault(kf, f) == IF f \in KeySet(kf) THEN kf ELSE Append(kf, [k |-> f, v |-> 0])

\* known_formats[f] += 1
Increment(kf, f) == [n \in 1..Len(kf) |-> IF kf[n].k = f THEN [k |-> f, v |-> kf[n].v + 1] ELSE kf[n]]

\* setdefault followed by += 1
CountFormat(kf, f) == Increment(SetDefault(kf, f), f)

RECURSIVE FromKeys(_)
\* {format_: 0 for format_ in formats}
FromKeys(fs) ==
    IF fs = <<>> THEN <<>>
    ELSE SetDefault(FromKeys(SubSeq(fs, 1, Len(fs) - 1)), fs[Len(fs)])

----------------------------------------------------------------------------
(* FormatHandler *)

\* check_format_in_title returning the word found in the title as it is written
check_format_in_title_as_written(t) ==
    IF t.none THEN None
    ELSE LET formats_in_title == SelectSeq(MTGFORMATS, LAMBDA f : Contains(Lower(t.words), f))
         IN IF Len(formats_in_title) = 1
            THEN t.words[CHOOSE n \in 1..Len(t.words) :
                            WordCount(LowerWord(t.words[n]), formats_in_title[1]) > 0]
            ELSE None

\* check_format_in_title(title)
check_format_in_title(t) ==
    IF t.none THEN None
    ELSE LET formats_in_title == SelectSeq(MTGFORMATS, LAMBDA f : Contains(Lower(t.words), f))
         IN IF Len(formats_in_title) = 1 THEN formats_in_title[1] ELSE None

\* formats = [tag.lower() for tag in article.tags if tag.lower() in MTGFORMATS.__args__]
tag_formats(ts) == SelectSeqOf(Lower(ts), Formats)

\* the priority format of process_article
priority(fs, t) == IF Len(fs) = 1 THEN fs[1] ELSE check_format_in_title(t)

\* the format a block's text yields when search_in_text is on, None if no name occurs
text_format(text) ==
    LET format_occurences == [n \in 1..Len(MTGFORMATS) |-> Count(Lower(text.words), MTGFORMATS[n])]
    IN IF SumSeq(format_occurences) = 0 THEN None
       ELSE MTGFORMATS[Argmax(format_occurences)]

\* process_section that looks at the title first and falls back on the override
process_section_title_first(section, kf, format_) ==
    LET f == IF section.text.none THEN None
             ELSE LET formats_in_title ==
                          SelectSeq(MTGFORMATS, LAMBDA g : Contains(Lower(section.text.words), g))
                  IN IF Len(formats_in_title) = 1 THEN formats_in_title[1] ELSE None
    IN IF f # None
       THEN [node |-> [section EXCEPT !.format_ = f],
             known_formats |-> Increment(SetDefault(kf, f), f),
             format_ |-> f]
       ELSE [node |-> [section EXCEPT !.format_ = format_],
             known_formats |-> kf,
             format_ |-> format_]

\* process_section, without the recursion into the children
process_section(section, kf, format_) ==
    IF format_ = None
    THEN LET f == check_format_in_title(section.text)
         IN [node |-> [section EXCEPT !.format_ = f],
             known_formats |-> IF f # None THEN CountFormat(kf, f) ELSE kf,
             format_ |-> f]
    ELSE [node |-> [section EXCEPT !.format_ = format_],
          known_formats |-> kf,
          format_ |-> format_]

\* process_block
process_block(block, kf, format_, search) ==
    IF format_ # None
    THEN [node |-> [block EXCEPT !.format_ = format_], known_formats |-> kf]
    ELSE IF search /\ text_format(block.text) # None
    THEN [node |-> [block EXCEPT !.format_ = text_format(block.text)],
          known_formats |-> CountFormat(kf, text_format(block.text))]
    ELSE [node |-> block, known_formats |-> kf]

\* process_decklist that lets a given override replace the format of the decklist
process_decklist_override_wins(decklist, kf, format_) ==
    IF decklist.format_ = None \/ format_ # None
    THEN [node |-> [decklist EXCEPT !.format_ = format_], known_formats |-> kf]
    ELSE [node |-> decklist,
          known_formats |-> Increment(SetDefault(kf, decklist.format_), decklist.format_)]

\* process_decklist that counts the format of the decklist only when no override is given
process_decklist_silent(decklist, kf, format_) ==
    IF decklist.format_ = None
    THEN [node |-> [decklist EXCEPT !.format_ = format_], known_formats |-> kf]
    ELSE [node |-> decklist,
          known_formats |-> IF format_ = None
                            THEN Increment(SetDefault(kf, decklist.format_), decklist.format_)
                            ELSE kf]

\* process_decklist
process_decklist(decklist, kf, format_) ==
    IF decklist.format_ = None
    THEN [node |-> [decklist EXCEPT !.format_ = format_], known_formats |-> kf]
    ELSE [node |-> decklist, known_formats |-> CountFormat(kf, decklist.format_)]

\* resolution that runs the vote although a priority format was determined
resolution_ignoring_priority(prio, kf) ==
    LET format_occurences == Values(kf)
        sum_occurences == SumSeq(format_occurences)
    IN IF sum_occurences = 0 THEN None
       ELSE LET max_key_index == Argmax(format_occurences)
            IN IF format_occurences[max_key_index] = sum_occurences
               THEN Keys(kf)[max_key_index]
               ELSE None

\* resolution that accepts a format counted more often than all others together
resolution_majority(prio, kf) ==
    IF prio # None THEN None
    ELSE LET format_occurences == Values(kf)
             sum_occurences == SumSeq(format_occurences)
         IN IF sum_occurences = 0 THEN None
            ELSE LET max_key_index == Argmax(format_occurences)
                 IN IF 2 * format_occurences[max_key_index] > sum_occurences
                    THEN Keys(kf)[max_key_index]
                    ELSE None

\* resolution that accepts the most counted format, whatever the other counts
resolution_plurality(prio, kf) ==
    IF prio # None THEN None
    ELSE LET format_occurences == Values(kf)
             sum_occurences == SumSeq(format_occurences)
         IN IF sum_occurences = 0 THEN None
            ELSE Keys(kf)[Argmax(format_occurences)]

\* the format process_article passes to set_format, None when it does not call it
resolution(prio, kf) ==
    IF prio # None THEN None
    ELSE LET format_occurences == Values(kf)
             sum_occurences == SumSeq(format_occurences)
         IN IF sum_occurences = 0 THEN None
            ELSE LET max_key_index == Argmax(format_occurences)
                 IN IF format_occurences[max_key_index] = sum_occurences
                    THEN Keys(kf)[max_key_index]
                    ELSE None

----------------------------------------------------------------------------
(* The checked instances *)

RECURSIVE SeqsUpTo(_, _)
SeqsUpTo(S, n) ==
    IF n = 0 THEN {<<>>}
    ELSE LET shorter == SeqsUpTo(S, n - 1)
         IN shorter \cup {Append(s, x) : s \in {t \in shorter : Len(t) = n - 1}, x \in S}

Texts == {Str(w) : w \in SeqsUpTo(TitleWords, MaxWords)}
Titles == {NoneStr} \cup Texts

NodesAt(d) ==
    {[item_type |-> "section", depth |-> d, text |-> t, format_ |-> None] : t \in Titles}
    \cup {[item_type |-> "block", depth |-> d, text |-> t, format_ |-> None] : t \in Texts}
    \cup {[item_type |-> "decklist", depth |-> d, text |-> NoneStr, format_ |-> f] :
            f \in DecklistFormats \cup {None}}

\* the depths a node may have when it follows the pre-order sequence t
NextDepths(t) ==
    IF t = <<>> THEN {1}
    ELSE LET last == t[Len(t)]
         IN 1..(IF last.item_type = "section" THEN last.depth + 1 ELSE last.depth)

RECURSIVE Trees(_)
\* the well-formed pre-order trees of at most n nodes
Trees(n) ==
    IF n = 0 THEN {<<>>}
    ELSE LET smaller == Trees(n - 1)
         IN smaller \cup UNION {{Append(t, x) : x \in UNION {NodesAt(d) : d \in NextDepths(t)}} :
                                   t \in {u \in smaller : Len(u) = n - 1}}

----------------------------------------------------------------------------
(* The state machine *)

\* the state before the first call of process_article on a scraped article
Fresh ==
    /\ formats = <<>>
    /\ format = None
    /\ known_formats = <<>>
    /\ priority_format = None
    /\ frames = <<>>
    /\ pc = "call"
    /\ i = 1
    /\ run = 1
    /\ entry = nodes
    /\ passed = <<>>
    /\ set_format_calls = <<>>
    /\ first = [formats |-> <<>>, set_format_calls |-> <<>>]

\* articles of every tag list and title over small trees; article.tags holds
\* no tag twice, but may hold tags that differ in case only
Init ==
    /\ nodes \in Trees(MaxNodes - 1)
    /\ tags \in {ts \in SeqsUpTo(TagWords, MaxTags) :
                    \A m, n \in 1..Len(ts) : ts[m] = ts[n] => m = n}
    /\ title \in Titles
    /\ search_in_text \in BOOLEAN
    /\ Fresh

\* trees of every shape, in an article without a priority format (untagged, or
\* tagged with two formats) or with the priority format of its title
InitTree ==
    /\ nodes \in Trees(MaxNodes)
    /\ \E a \in {<< <<>>, NoneStr >>,
                 << <<>>, Str(<<"Pioneer">>) >>,
                 << <<"Pioneer", "Standard">>, NoneStr >>} :
          tags = a[1] /\ title = a[2]
    /\ search_in_text \in BOOLEAN
    /\ Fresh

\* process_article up to the traversal: formats, known_formats, priority_format
process_article_begin ==
    /\ pc = "call"
    /\ formats' = tag_formats(tags)
    /\ known_formats' = FromKeys(tag_formats(tags))
    /\ priority_format' = priority(tag_formats(tags), title)
    /\ frames' = <<>>
    /\ i' = 1
    /\ entry' = nodes
    /\ passed' = <<>>
    /\ set_format_calls' = <<>>
    /\ pc' = "walk"
    /\ UNCHANGED <<search_in_text, tags, title, nodes, format, run, first>>

\* the format_ argument process_content is called with for the node at i
Override ==
    IF nodes[i].depth = 1 THEN priority_format ELSE frames[nodes[i].depth - 1]

\* the section calls still in progress when the node at i is reached
Callers == SubSeq(frames, 1, nodes[i].depth - 1)

\* process_content dispatches on item_type == 'section'
content_section ==
    /\ pc = "walk"
    /\ i <= Len(nodes)
    /\ nodes[i].item_type = "section"
    /\ LET r == process_section(nodes[i], known_formats, Override)
       IN /\ nodes' = [nodes EXCEPT ![i] = r.node]
          /\ known_formats' = r.known_formats
          /\ frames' = Append(Callers, r.format_)
    /\ passed' = Append(passed, Override)
    /\ i' = i + 1
    /\ UNCHANGED <<search_in_text, tags, title, formats, format, priority_format,
                   pc, run, entry, set_format_calls, first>>

\* process_content dispatches on item_type == 'block'
content_block ==
    /\ pc = "walk"
    /\ i <= Len(nodes)
    /\ nodes[i].item_type = "block"
    /\ LET r == process_block(nodes[i], known_formats, Override, search_in_text)
       IN /\ nodes' = [nodes EXCEPT ![i] = r.node]
          /\ known_formats' = r.known_formats
    /\ frames' = Callers
    /\ passed' = Append(passed, Override)
    /\ i' = i + 1
    /\ UNCHANGED <<search_in_text, tags, title, formats, format, priority_format,
                   pc, run, entry, set_format_calls, first>>

\* process_content dispatches on item_type == 'decklist'
content_decklist ==
    /\ pc = "walk"
    /\ i <= Len(nodes)
    /\ nodes[i].item_type = "decklist"
    /\ LET r == process_decklist(nodes[i], known_formats, Override)
       IN /\ nodes' = [nodes EXCEPT ![i] = r.node]
          /\ known_formats' = r.known_formats
    /\ frames' = Callers
    /\ passed' = Append(passed, Override)
    /\ i' = i + 1
    /\ UNCHANGED <<search_in_text, tags, title, formats, format, priority_format,
                   pc, run, entry, set_format_calls, first>>

\* article.set_format(f): the article's single format becomes f
set_format(article_format, f) == f

\* process_article after the traversal: article.formats and the resolution
process_article_end ==
    /\ pc = "walk"
    /\ i > Len(nodes)
    /\ formats' = Keys(known_formats)
    /\ LET f == resolution(priority_format, known_formats)
       IN IF f # None
          THEN format' = set_format(format, f) /\ set_format_calls' = Append(set_format_calls, f)
          ELSE UNCHANGED <<format, set_format_calls>>
    /\ frames' = <<>>
    /\ pc' = "done"
    /\ UNCHANGED <<search_in_text, tags, title, nodes, known_formats, priority_format,
                   i, run, entry, passed, first>>

\* the caller runs process_article again on the article it has just processed
Rerun ==
    /\ pc = "done"
    /\ run < MaxRuns
    /\ first' = [formats |-> formats, set_format_calls |-> set_format_calls]
    /\ run' = run + 1
    /\ pc' = "call"
    /\ UNCHANGED <<search_in_text, tags, title, nodes, formats, format, known_formats,
                   priority_format, frames, i, entry, passed, set_format_calls>>

Next ==
    \/ process_article_begin
    \/ content_section
    \/ content_block
    \/ content_decklist
    \/ process_article_end
    \/ Rerun

Spec == Init /\ [][Next]_vars

SpecTree == InitTree /\ [][Next]_vars

----------------------------------------------------------------------------
(* Vocabulary of the properties *)

\* the entries of a sequence
Range(s) == {s[n] : n \in 1..Len(s)}

\* the orderings of a sequence
Orderings(s) == {[n \in 1..Len(s) |-> s[p[n]]] : p \in Permutations(1..Len(s))}

\* the nodes the traversal of the current call has processed
Processed == 1..Len(passed)

\* the nodes below node k
Below(k) == {j \in (k + 1)..Len(nodes) : \A m \in (k + 1)..j : nodes[m].depth > nodes[k].depth}

\* the sum of all counts
Total(kf) == SumSeq(Values(kf))

\* node k is a section or a block
IsSectionOrBlock(k) == nodes[k].item_type \in {"section", "block"}

\* the traversal is about to process a node of the given type
Reaches(type) == pc = "walk" /\ i <= Len(nodes) /\ nodes[i].item_type = type /\ i' = i + 1

\* the count of f, and of f alone, goes up by one
CountsOnly(f) ==
    /\ KeySet(known_formats') = KeySet(known_formats) \cup {f}
    /\ \A g \in Formats :
          Get(known_formats', g) = Get(known_formats, g) + (IF g = f THEN 1 ELSE 0)

----------------------------------------------------------------------------
(* C5: the format_ of every section, block and decklist is None or one of  *)
(* the six canonical lower-case format names, in every state during and    *)
(* after process_article.                                                  *)
C5_FormatsCanonical ==
    \A k \in 1..Len(nodes) : nodes[k].format_ \in Formats \cup {None}

\* a section stamped from its own capitalised title above a stamped child,
\* next to a decklist that arrived with a format
C5_Witness ==
    /\ pc = "done"
    /\ \E k \in Processed :
          /\ nodes[k].item_type = "section"
          /\ passed[k] = None
          /\ nodes[k].text = Str(<<"Pioneer">>)
          /\ nodes[k].format_ = "pioneer"
          /\ \E j \in Below(k) : nodes[j].item_type = "block" /\ nodes[j].format_ = "pioneer"
    /\ \E k \in Processed : nodes[k].item_type = "decklist" /\ entry[k].format_ = "standard"

----------------------------------------------------------------------------
(* C6: a decklist that has a format when process_decklist reaches it keeps *)
(* it, and the count of that format, and of no other, goes up by exactly   *)
(* one, whatever the override; a decklist without a format receives the    *)
(* override and changes no count.                                          *)
C6_PresetDecklistKeptAndCounted ==
    [][Reaches("decklist") =>
          IF nodes[i].format_ # None
          THEN nodes'[i].format_ = nodes[i].format_ /\ CountsOnly(nodes[i].format_)
          ELSE nodes'[i].format_ = Override /\ known_formats' = known_formats]_vars

\* a nested decklist that arrived as standard was processed under the override pioneer
C6_Witness ==
    \E k \in Processed :
        /\ nodes[k].item_type = "decklist"
        /\ nodes[k].depth >= 2
        /\ entry[k].format_ = "standard"
        /\ passed[k] = "pioneer"
        /\ nodes[k].format_ = "standard"
        /\ Get(known_formats, "standard") >= 1

----------------------------------------------------------------------------
(* Block classification *)

\* occurrences of the format name f in the lower-cased text
Occurrences(text, f) == Count(Lower(text.words), f)

\* the place of f in the fixed order of MTGFORMATS
Position(f) == CHOOSE n \in 1..Len(MTGFORMATS) : MTGFORMATS[n] = f

\* the format named most often in the text, the earliest of the fixed order on a tie
MostNamed(text) ==
    CHOOSE f \in Formats :
        \A g \in Formats :
            \/ Occurrences(text, f) > Occurrences(text, g)
            \/ Occurrences(text, f) = Occurrences(text, g) /\ Position(f) <= Position(g)

(* C9: a block processed without an override receives a format exactly     *)
(* when search_in_text is on and some format name occurs in its lower-cased*)
(* text: the name with the most occurrences, the earliest of MTGFORMATS on *)
(* a tie, and the count of that format alone goes up by one; otherwise the *)
(* block and known_formats stay as they are.                               *)
C9_BlockClassification ==
    [][Reaches("block") /\ Override = None =>
          IF search_in_text /\ \E f \in Formats : Occurrences(nodes[i].text, f) > 0
          THEN /\ nodes'[i].format_ = MostNamed(nodes[i].text)
               /\ CountsOnly(MostNamed(nodes[i].text))
          ELSE /\ nodes'[i].format_ = nodes[i].format_
               /\ known_formats' = known_formats]_vars

\* a block naming pioneer before standard, once each, was classified as standard
C9_Witness ==
    /\ search_in_text
    /\ \E k \in Processed :
          /\ nodes[k].item_type = "block"
          /\ passed[k] = None
          /\ nodes[k].text = Str(<<"Pioneer", "standard">>)
          /\ nodes[k].format_ = "standard"
          /\ Get(known_formats, "standard") >= 1

----------------------------------------------------------------------------
(* The silent override *)

\* the override reaches every section and block below the node it was given to
C8_Cascade ==
    \A k \in Processed :
        IsSectionOrBlock(k) /\ passed[k] # None =>
            \A j \in ({k} \cup Below(k)) \cap Processed :
                IsSectionOrBlock(j) => nodes[j].format_ = passed[k] /\ passed[j] = passed[k]

\* a section or block given an override changes no count
C8_Silent ==
    (Reaches("section") \/ Reaches("block")) /\ Override # None
        => known_formats' = known_formats

\* the end-to-end case: only the title names a format
C8_TitleOnly ==
    /\ pc = "done"
    /\ tag_formats(tags) = <<>>
    /\ check_format_in_title(title) # None
    /\ \A k \in 1..Len(entry) : entry[k].item_type = "decklist" => entry[k].format_ = None
    => /\ known_formats = <<>>
       /\ formats = <<>>
       /\ \A k \in 1..Len(nodes) :
             IsSectionOrBlock(k) => nodes[k].format_ = check_format_in_title(title)

(* C8: a section or block processed with an override ends with that        *)
(* override as its format_, and so does every section and block below it;  *)
(* none of them changes a count.  An untagged article whose title names    *)
(* exactly one format, over a tree without decklist formats, ends with     *)
(* known_formats and article.formats empty and every section and block     *)
(* stamped with the format of the title.                                   *)
C8_SilentOverrideCascade == [](C8_Cascade /\ C8_TitleOnly) /\ [][C8_Silent]_vars

\* under the title format pioneer, a section titled standard holds a section that
\* holds a block whose text names standard: all pioneer, nothing counted
C8_Witness ==
    /\ pc = "done"
    /\ search_in_text
    /\ formats = <<>>
    /\ \E k \in Processed :
          /\ nodes[k].item_type = "section"
          /\ nodes[k].depth = 1
          /\ passed[k] = "pioneer"
          /\ nodes[k].text = Str(<<"standard">>)
          /\ nodes[k].format_ = "pioneer"
          /\ \E j \in Below(k) :
                /\ nodes[j].item_type = "block"
                /\ nodes[j].depth = 3
                /\ nodes[j].text = Str(<<"standard">>)
                /\ nodes[j].format_ = "pioneer"

----------------------------------------------------------------------------
(* C3: when a priority format was determined, from a single tag-derived    *)
(* format or from the article title, process_article never calls           *)
(* set_format: the article's format stays unset whatever was counted.      *)
C3_PriorityNeverSetsFormat ==
    priority_format # None => set_format_calls = <<>> /\ format = None

\* a call with a priority format ended with every counted occurrence on one format
C3_Witness ==
    /\ pc = "done"
    /\ priority_format # None
    /\ Total(known_formats) > 0
    /\ \E f \in Formats : Get(known_formats, f) = Total(known_formats)

----------------------------------------------------------------------------
(* C2: without a priority format, process_article sets the article's       *)
(* format to f if and only if the counts of known_formats sum to more than *)
(* zero and the count of f equals that sum; otherwise it sets nothing.     *)
C2_Unanimity ==
    pc = "done" /\ priority_format = None =>
        /\ Len(set_format_calls) <= 1
        /\ \A f \in Formats :
              set_format_calls = <<f>>
                  <=> Total(known_formats) > 0 /\ Get(known_formats, f) = Total(known_formats)
        /\ run = 1 => format = (IF set_format_calls = <<>> THEN None ELSE set_format_calls[1])

\* standard was counted twice and set, next to a zero entry for pioneer
C2_Witness ==
    /\ pc = "done"
    /\ priority_format = None
    /\ "pioneer" \in KeySet(known_formats)
    /\ Get(known_formats, "pioneer") = 0
    /\ Get(known_formats, "standard") = 2
    /\ set_format_calls = <<"standard">>
    /\ format = "standard"

----------------------------------------------------------------------------
(* The article-level tie-break *)

\* the calls of set_format a resolution f amounts to
Outcome(f) == IF f = None THEN <<>> ELSE <<f>>

(* C10: the order of the keys of known_formats never affects the outcome:  *)
(* whenever set_format is called exactly one key has a non-zero count and  *)
(* the format set is in article.formats; every ordering of the keys, and   *)
(* every ordering of the tags, gives the same outcome.                     *)
C10_OrderIrrelevant ==
    pc = "done" =>
        /\ \A kf \in Orderings(known_formats) :
              set_format_calls = Outcome(resolution(priority_format, kf))
        /\ \A ts \in Orderings(tags) : priority(tag_formats(ts), title) = priority_format
        /\ set_format_calls # <<>> =>
              /\ Cardinality({f \in KeySet(known_formats) : Get(known_formats, f) > 0}) = 1
              /\ set_format_calls[1] \in Range(formats)

\* the format that was set is not the first key of known_formats
C10_Witness ==
    /\ pc = "done"
    /\ set_format_calls # <<>>
    /\ Len(known_formats) >= 2
    /\ Keys(known_formats)[1] # set_format_calls[1]

----------------------------------------------------------------------------
(* The formats of the article *)

\* node k yielded f: by its section title, its block text, or the format it arrived with
Yields(k, f) ==
    CASE entry[k].item_type = "section" ->
            passed[k] = None /\ check_format_in_title(entry[k].text) = f
      [] entry[k].item_type = "block" ->
            passed[k] = None /\ search_in_text /\ Occurrences(entry[k].text, f) > 0
                             /\ nodes[k].format_ = f
      [] entry[k].item_type = "decklist" -> entry[k].format_ = f

\* the formats some node of the tree yielded during the current call
Observed == {f \in Formats : \E k \in Processed : Yields(k, f)}

\* the sequence holds no entry twice
NoDuplicates(s) == \A m, n \in 1..Len(s) : s[m] = s[n] => m = n

(* C4, as claimed: after process_article, article.formats holds no format  *)
(* twice, is the key set of known_formats, and is exactly the set of       *)
(* formats some node of the tree yielded.                                  *)
C4_FormatsAreObserved ==
    pc = "done" =>
        /\ NoDuplicates(formats)
        /\ Range(formats) = KeySet(known_formats)
        /\ Range(formats) = Observed

(* C4, as amended: after process_article, article.formats holds no format  *)
(* twice, is the key set of known_formats, and is exactly the tag-derived  *)
(* formats together with the formats some node of the tree yielded.        *)
C4_FormatsAreTagsAndObserved ==
    pc = "done" =>
        /\ NoDuplicates(formats)
        /\ Range(formats) = KeySet(known_formats)
        /\ Range(formats) = Range(tag_formats(tags)) \cup Observed

\* a tag-derived format no node yielded, next to a yielded format no tag names
C4_Witness ==
    /\ pc = "done"
    /\ Range(tag_formats(tags)) \ Observed # {}
    /\ Observed \ Range(tag_formats(tags)) # {}

----------------------------------------------------------------------------
(* The priority format *)

\* the canonical formats the lower-cased tags name
TagNamed == Range(Lower(tags)) \cap Formats

\* the canonical formats the lower-cased title contains
TitleNamed == IF title.none THEN {} ELSE {f \in Formats : Contains(Lower(title.words), f)}

(* C7: the priority format is the tag-derived format when the lower-cased  *)
(* tags name exactly one canonical format, whatever the title; otherwise   *)
(* it is the single canonical name contained in the lower-cased title, and *)
(* None when the title is None or contains no or several names.            *)
C7_PriorityDetermination ==
    pc # "call" =>
        priority_format =
            IF Cardinality(TagNamed) = 1 THEN CHOOSE f \in TagNamed : TRUE
            ELSE IF Cardinality(TitleNamed) = 1 THEN CHOOSE f \in TitleNamed : TRUE
            ELSE None

----------------------------------------------------------------------------
(* C1: a second call of process_article on the tree the first call left,   *)
(* with tags and title unchanged, ends with the same set article.formats   *)
(* and the same set_format outcome as the first call.                      *)
C1_Idempotent ==
    pc = "done" /\ run = 2 =>
        /\ Range(formats) = Range(first.formats)
        /\ set_format_calls = first.set_format_calls

====
